---- MODULE Spec2Model ----
(***************************************************************************)
(* Model of the task-assignment and label-persistence engine of            *)
(* labeler_backend/fire_repo.py (class FirestoreRepo).                     *)
(*                                                                         *)
(* Documents are modelled as Python dicts are used by the code: a missing  *)
(* key and a key holding None both read as Null through dict.get().        *)
(* Server timestamps (timestamp_assigned, timestamp_labeled, updated_at,   *)
(* timestamp_created, edited_at) carry wall-clock values that no branch of *)
(* the modelled code reads; they are left out of the documents.            *)
(* task_expires_at is kept relative to the clock: Null, Fresh (a time one   *)
(* lock window after the write, still ahead) or Stale (a time now past).   *)
(***************************************************************************)
EXTENDS Integers, Sequences, FiniteSets, TLC

\* ------------------------------------------------------------------ bounds
\* the number of calls of the repository a run makes
MaxCalls == 5
\* the scan window of the candidate query (.limit(50) in the code), scaled to
\* the image pool: smaller than the pool as written, the whole pool when raised
ScanLimit == 2
\* the limit of the review queries, 200 in the code
ReviewLimit == 2

\* ------------------------------------------------------- program constants
\* range(5) in the retry loop of get_next_task
MaxAttempts == 5

\* ---------------------------------------------------------------- universe
Null == "null"
NoImage == 0
NoUser == 0
\* datetime.utcnow() + timedelta(minutes=_LOCK_WINDOW_MINUTES)
Fresh == "fresh"
\* a task_expires_at that the clock has passed
Stale == "stale"

\* document ids of REVS_images and REVS_users
Images == {1, 2, 3}
Users == {1, 2, 3}
\* an image id under which REVS_images holds no document
MissingImage == 4
\* the ids a caller may pass as image_id
ImageIds == Images \cup {MissingImage}
\* the user documents whose role field is "admin"
AdminUsers == {3}
\* the users who label: they take tasks and are sent revisions
Workers == Users \ AdminUsers

\* property_id of each image document, fixed at upload: two images of one
\* property, then one of a second property
PropertyOf(i) == IF i <= 2 THEN "P1" ELSE "P2"

\* timestamp_uploaded of each image document: images are uploaded in id order
TimestampUploaded(i) == i

\* images, labels, revisions, users: the collections REVS_images, REVS_labels
\*   (with the revisions sub-collection of each label) and REVS_users
\* ret:   what each user's latest get_next_task returned, while no other call
\*        has been made since
\* last:  the latest call and how it ended
\* txn:   each user's running transaction (snapshot and attempt number), of
\*        get_next_task, save_labels or confirm_labels; a document that differs from
\*        its snapshot was written since, and one that was written back to
\*        its snapshot value reads the same at commit as it did at the start
\* saved: the payloads of the committed save_labels calls on each image
\* calls: the number of calls made
\* args:  the arguments of the latest call (the payload of a save is the
\*        latest entry of saved)
VARIABLES images, labels, revisions, users, ret, last, txn, saved, calls, args

vars ==
    <<images, labels, revisions, users, ret, last, txn, saved, calls, args>>
store == <<images, labels, revisions, users>>

\* ------------------------------------------------------------- dict helpers
\* dict.get(key): Null when the key is missing
Get(d, k) == IF k \in DOMAIN d THEN d[k] ELSE Null

\* dict.get(key, default)
GetOr(d, k, default) == IF k \in DOMAIN d THEN d[k] ELSE default

\* set(doc, fields, merge=True) / update(doc, fields): the written keys take
\* the new values, every other key of the stored document stays
Merge(old, new) ==
    [k \in (DOMAIN old) \cup (DOMAIN new) |->
        IF k \in DOMAIN new THEN new[k] ELSE old[k]]

\* the first document of a query result ordered by document id
MinOf(S) == CHOOSE i \in S : \A j \in S : i <= j

\* ------------------------------------------------------------ initial store
\* role field of each user document (the second labeler's document carries
\* no role field)
RoleOf(u) ==
    IF u \in AdminUsers THEN "admin"
    ELSE IF u = 1 THEN "labeler" ELSE Null

InitImage(i) ==
    [status |-> "unlabeled", qa_status |-> Null, assigned_to |-> NoUser,
     property_id |-> PropertyOf(i), flagged |-> FALSE, qa_feedback |-> Null,
     confirmed_by |-> NoUser, review_requested_by |-> NoUser,
     task_expires_at |-> Null]

InitUser(u) ==
    [role |-> RoleOf(u), current_property_id |-> Null,
     images_to_review |-> 0, images_confirmed |-> 0, images_processed |-> 0,
     last_labeled_image_id |-> NoImage]

NoLabel == [exists |-> FALSE, doc |-> <<>>]

IdleTxn ==
    [pc |-> "idle", attempt |-> 0, image |-> NoImage, payload |-> <<>>,
     simages |-> <<>>, susers |-> <<>>, slabels |-> <<>>]

\* the parameters of the repository's methods, those a call does not take
\* left at their defaults
NoArgs ==
    [image_id |-> NoImage, user_id |-> NoUser, labeler_id |-> NoUser,
     feedback |-> Null, abandon |-> FALSE]

Init ==
    /\ images = [i \in Images |-> InitImage(i)]
    /\ labels = [i \in ImageIds |-> NoLabel]
    /\ revisions = [i \in ImageIds |-> <<>>]
    /\ users = [u \in Users |-> InitUser(u)]
    /\ ret = [u \in Users |-> [called |-> FALSE, image |-> NoImage]]
    /\ last = [op |-> "init", result |-> "ok"]
    /\ txn = [u \in Users |-> IdleTxn]
    /\ saved = [i \in ImageIds |-> <<>>]
    /\ calls = 0
    /\ args = NoArgs

\* --------------------------------------------------- get_next_task, _txn body
\* the revision query answered only while the worker holds no task: the
\* held task is resumed first
ReviewDocsAfterResume(imgs, w) ==
    IF \E j \in Images :
          imgs[j].status = "in_progress" /\ imgs[j].assigned_to = w
    THEN {}
    ELSE {i \in Images :
            imgs[i].qa_status = "review" /\ imgs[i].assigned_to = w}

\* review_q: qa_status == 'review' and assigned_to == user_id
ReviewDocs(imgs, w) ==
    {i \in Images : imgs[i].qa_status = "review" /\ imgs[i].assigned_to = w}

\* the resume query left out: a held task is never found again
ResumeDocsNone(imgs, w) == {}

\* resume_q: status == 'in_progress' and assigned_to == user_id
ResumeDocs(imgs, w) ==
    {i \in Images : imgs[i].status = "in_progress" /\ imgs[i].assigned_to = w}

\* a candidate query that also offers the images whose lock has run out
UnlabeledOrExpired(imgs) ==
    {i \in Images :
        \/ imgs[i].status = "unlabeled"
        \/ imgs[i].status = "in_progress" /\ imgs[i].task_expires_at = Stale}

Unlabeled(imgs) == {i \in Images : imgs[i].status = "unlabeled"}

\* new_q: status == 'unlabeled', order_by timestamp_uploaded, limit
CandidateDocs(imgs) ==
    {i \in Unlabeled(imgs) :
        Cardinality({j \in Unlabeled(imgs) :
            TimestampUploaded(j) < TimestampUploaded(i)}) < ScanLimit}

\* the candidates iterated newest first
LastUploaded(S) ==
    CHOOSE i \in S : \A j \in S : TimestampUploaded(i) >= TimestampUploaded(j)

\* the first document of a candidate set in timestamp_uploaded order
FirstUploaded(S) ==
    CHOOSE i \in S : \A j \in S : TimestampUploaded(i) <= TimestampUploaded(j)

\* the property check left out: every property counts as free
TakenByOtherSkipped(usrs, p, w) == FALSE

\* property_taken_q (limit 1) and taken_by_other
TakenByOther(usrs, p, w) ==
    LET holders == {u \in Users : usrs[u].current_property_id = p}
        existing_users == IF holders = {} THEN {} ELSE {MinOf(holders)}
    IN  \E u \in existing_users : u # w

\* 2a) candidates in the user's current property
ContinueDocs(imgs, usrs, w) ==
    {i \in CandidateDocs(imgs) :
        imgs[i].property_id = usrs[w].current_property_id}

\* 2b) without the skip of images that have no property_id: such an image
\* is offered like one of a property nobody holds
ClaimableDocsNoPropertyToo(imgs, usrs, w) ==
    {i \in CandidateDocs(imgs) :
        /\ imgs[i].property_id # usrs[w].current_property_id
        /\ \/ imgs[i].property_id = Null
           \/ ~TakenByOther(usrs, imgs[i].property_id, w)}

\* 2b) candidates whose property can be claimed
ClaimableDocs(imgs, usrs, w) ==
    {i \in CandidateDocs(imgs) :
        /\ imgs[i].property_id # Null
        /\ imgs[i].property_id # usrs[w].current_property_id
        /\ ~TakenByOther(usrs, imgs[i].property_id, w)}

\* The path _txn takes on the store it reads, the image it returns and the
\* documents it writes.
NextTaskPlan(imgs, usrs, w) ==
    IF ReviewDocs(imgs, w) # {} THEN
        [path |-> "review", image |-> MinOf(ReviewDocs(imgs, w)),
         wimage |-> TRUE, wuser |-> FALSE, prop |-> Null]
    ELSE IF ResumeDocs(imgs, w) # {} THEN
        [path |-> "resume", image |-> MinOf(ResumeDocs(imgs, w)),
         wimage |-> FALSE, wuser |-> FALSE, prop |-> Null]
    ELSE IF usrs[w].current_property_id # Null /\ ContinueDocs(imgs, usrs, w) # {} THEN
        [path |-> "continue", image |-> FirstUploaded(ContinueDocs(imgs, usrs, w)),
         wimage |-> TRUE, wuser |-> FALSE, prop |-> Null]
    ELSE IF ClaimableDocs(imgs, usrs, w) # {} THEN
        [path |-> "claim", image |-> FirstUploaded(ClaimableDocs(imgs, usrs, w)),
         wimage |-> TRUE, wuser |-> TRUE,
         prop |-> imgs[FirstUploaded(ClaimableDocs(imgs, usrs, w))].property_id]
    ELSE
        [path |-> "none", image |-> NoImage, wimage |-> FALSE,
         wuser |-> usrs[w].current_property_id # Null, prop |-> Null]

\* the fields txn.update writes to the image document on each path
ImageWrite(plan, w) ==
    IF plan.path = "review"
    THEN [status |-> "in_progress", task_expires_at |-> Fresh]
    ELSE [status |-> "in_progress", assigned_to |-> w,
          task_expires_at |-> Fresh]

\* the store after the writes of a plan are applied
ImagesAfter(imgs, plan, w) ==
    IF plan.wimage
    THEN [imgs EXCEPT ![plan.image] = Merge(@, ImageWrite(plan, w))]
    ELSE imgs

\* the claim written without the worker's current_property_id
UsersAfterImageOnly(usrs, plan, w) ==
    IF plan.wuser /\ plan.path = "none"
    THEN [usrs EXCEPT ![w] = Merge(@, [current_property_id |-> Null])]
    ELSE usrs

\* the exhausted property left on the worker when nothing is found
UsersAfterKeepsProperty(usrs, plan, w) ==
    IF plan.wuser /\ plan.path = "claim"
    THEN [usrs EXCEPT ![w] = Merge(@, [current_property_id |-> plan.prop])]
    ELSE usrs

UsersAfter(usrs, plan, w) ==
    IF plan.wuser
    THEN [usrs EXCEPT ![w] = Merge(@, [current_property_id |-> plan.prop])]
    ELSE usrs

\* get_next_task run to completion with no concurrent transaction
GetNextTask(w) ==
    LET plan == NextTaskPlan(images, users, w) IN
    /\ txn[w].pc = "idle"
    /\ images' = ImagesAfter(images, plan, w)
    /\ users' = UsersAfter(users, plan, w)
    /\ ret' = [ret EXCEPT ![w] = [called |-> TRUE, image |-> plan.image]]
    /\ last' = [op |-> "get_next_task", result |-> plan.path]
    /\ args' = [NoArgs EXCEPT !.user_id = w]
    /\ UNCHANGED <<labels, revisions, txn, saved>>

\* ------------------------------------------------------------- release_task
\* any call other than get_next_task ends a run of consecutive
\* get_next_task calls
NoRet == [u \in Users |-> [called |-> FALSE, image |-> NoImage]]

\* the abandon that also forgets the worker's property
ReleaseTaskClearsProperty(i, u, abandon) ==
    /\ images' = IF abandon
                 THEN [images EXCEPT ![i] =
                        Merge(@, [status |-> "unlabeled", assigned_to |-> NoUser,
                                  task_expires_at |-> Null])]
                 ELSE images
    /\ users' = IF abandon
                THEN [users EXCEPT ![u] = Merge(@, [current_property_id |-> Null])]
                ELSE users
    /\ ret' = NoRet
    /\ args' = [NoArgs EXCEPT !.image_id = i, !.user_id = u,
                              !.abandon = abandon]
    /\ last' = [op |-> "release_task",
                result |-> IF abandon THEN "abandon" ELSE "keep"]
    /\ UNCHANGED <<labels, revisions, txn, saved>>

ReleaseTask(i, u, abandon) ==
    /\ images' = IF abandon
                 THEN [images EXCEPT ![i] =
                        Merge(@, [status |-> "unlabeled", assigned_to |-> NoUser,
                                  task_expires_at |-> Null])]
                 ELSE images
    /\ ret' = NoRet
    /\ args' = [NoArgs EXCEPT !.image_id = i, !.user_id = u,
                              !.abandon = abandon]
    /\ last' = [op |-> "release_task",
                result |-> IF abandon THEN "abandon" ELSE "keep"]
    /\ UNCHANGED <<labels, revisions, users, txn, saved>>

\* -------------------------------------------------------------- save_labels
\* the payload dicts passed to save_labels: labeled_by is the saving user, as
\* _build_payload sets it; save_labels takes any dict, so the other keys vary
PayloadsOf(u) ==
    { [labeled_by |-> u, notes |-> "n1", flagged |-> TRUE],
      [labeled_by |-> u, notes |-> "n2"] }

\* the freeze check
IsAdminUser(usrs, u) == usrs[u].role = "admin"

\* the freeze check left out
SaveDeniedNever(imgs, usrs, i, u) == FALSE

\* img_snap.to_dict() if img_snap.exists else {}
ImageDoc(imgs, i) == IF i \in DOMAIN imgs THEN imgs[i] ELSE <<>>

SaveDenied(imgs, usrs, i, u) ==
    /\ Get(ImageDoc(imgs, i), "qa_status") = "confirmed"
    /\ ~IsAdminUser(usrs, u)

\* update() of a missing document treated as a set(): it creates nothing in
\* the model's image collection but lets the other writes through
UpdateFailsNever(imgs, i) == FALSE

\* txn.update(img_ref, ...) on a document that does not exist: the commit
\* fails with NotFound and none of the transaction's writes is applied
UpdateFails(imgs, i) == i \notin DOMAIN imgs

\* the revision document written under a fixed id: each save replaces it
RevisionsAfterSaveFixedId(revs, lbl, u) ==
    IF lbl.exists
    THEN <<[payload |-> lbl.doc, edited_by |-> u]>>
    ELSE revs

\* 1) the revision stored before the label is overwritten
RevisionsAfterSave(revs, lbl, u) ==
    IF lbl.exists
    THEN Append(revs, [payload |-> lbl.doc, edited_by |-> u])
    ELSE revs

\* the merge applied the wrong way round: stored keys win over the payload
LabelAfterSaveOldWins(lbl, payload) ==
    [exists |-> TRUE, doc |-> Merge(payload, lbl.doc)]

\* 1) txn.set(labels_ref, to_write, merge=True)
LabelAfterSave(lbl, payload) ==
    [exists |-> TRUE, doc |-> Merge(lbl.doc, payload)]

\* qa_feedback cleared by the save, as the docstring of save_labels has it
ImageAfterSaveClearsFeedback(img, payload) ==
    Merge(img, [status |-> "labeled",
                task_expires_at |-> Null,
                flagged |-> GetOr(payload, "flagged", FALSE),
                qa_status |-> "pending",
                qa_feedback |-> Null])

\* 2) update_fields written to the image document
\* the save handing the image back: assigned_to cleared with the lock
ImageAfterSaveReleases(img, payload) ==
    Merge(img, [status |-> "labeled",
                task_expires_at |-> Null,
                assigned_to |-> NoUser,
                flagged |-> GetOr(payload, "flagged", FALSE),
                qa_status |-> "pending"])

ImageAfterSave(img, payload) ==
    Merge(img, [status |-> "labeled",
                task_expires_at |-> Null,
                flagged |-> GetOr(payload, "flagged", FALSE),
                qa_status |-> "pending"])

\* _inc_user: firestore.Increment of each named counter
IncUser(usr, deltas) ==
    Merge(usr, [k \in DOMAIN deltas |-> usr[k] + deltas[k]])

\* the counters incremented on every save, not only on the first
UserAfterSaveAlways(usr, lbl, i) ==
    Merge(IncUser(usr, [images_to_review |-> 1, images_processed |-> 1]),
          [last_labeled_image_id |-> i])

\* 2b) counters move only when the label document is created; 3) user stats
UserAfterSave(usr, lbl, i) ==
    Merge(IF lbl.exists THEN usr
          ELSE IncUser(usr, [images_to_review |-> 1, images_processed |-> 1]),
          [last_labeled_image_id |-> i])

SaveLabels(i, payload, u) ==
    /\ IF SaveDenied(images, users, i, u)
       THEN /\ last' = [op |-> "save_labels", result |-> "PermissionError"]
            /\ UNCHANGED <<store, saved>>
       ELSE IF UpdateFails(images, i)
       THEN /\ last' = [op |-> "save_labels", result |-> "NotFound"]
            /\ UNCHANGED <<store, saved>>
       ELSE /\ revisions' = [revisions EXCEPT ![i] =
                                RevisionsAfterSave(@, labels[i], u)]
            /\ labels' = [labels EXCEPT ![i] = LabelAfterSave(@, payload)]
            /\ images' = [images EXCEPT ![i] = ImageAfterSave(@, payload)]
            /\ users' = [users EXCEPT ![u] = UserAfterSave(@, labels[i], i)]
            /\ saved' = [saved EXCEPT ![i] = Append(@, payload)]
            /\ last' = [op |-> "save_labels",
                        result |-> IF labels[i].exists THEN "updated" ELSE "created"]
    /\ ret' = NoRet
    /\ args' = [NoArgs EXCEPT !.image_id = i, !.user_id = u]
    /\ UNCHANGED txn

\* save_labels under concurrency: the transaction reads the image, the
\* caller's user document and the label
SaveBegin(i, payload, u) ==
    /\ txn[u].pc = "idle"
    /\ txn' = [txn EXCEPT ![u] =
                [IdleTxn EXCEPT !.pc = "save", !.image = i,
                                !.payload = payload, !.simages = images,
                                !.susers = users, !.slabels = labels]]
    /\ UNCHANGED <<store, ret, last, saved, args>>

\* commits never validated against concurrent writes
SaveConflictNever(u) == FALSE

\* a document the transaction read was changed since
SaveConflict(u) ==
    \/ ImageDoc(images, txn[u].image) #
          ImageDoc(txn[u].simages, txn[u].image)
    \/ labels[txn[u].image] # txn[u].slabels[txn[u].image]
    \/ users[u] # txn[u].susers[u]

\* the function ran on what it read; PermissionError leaves the transaction
\* without a commit, otherwise its writes are applied together: the set
\* with merge=True and the increments act on the stored documents
SaveCommit(u) ==
    LET i == txn[u].image
        payload == txn[u].payload
        snap == txn[u].slabels[i]
    IN
    /\ txn[u].pc = "save"
    /\ ~SaveConflict(u)
    /\ IF SaveDenied(txn[u].simages, txn[u].susers, i, u)
       THEN /\ last' = [op |-> "save_labels", result |-> "PermissionError"]
            /\ UNCHANGED <<store, saved>>
       ELSE IF UpdateFails(images, i)
       THEN /\ last' = [op |-> "save_labels", result |-> "NotFound"]
            /\ UNCHANGED <<store, saved>>
       ELSE /\ revisions' = [revisions EXCEPT ![i] =
                                RevisionsAfterSave(@, snap, u)]
            /\ labels' = [labels EXCEPT ![i] = LabelAfterSave(@, payload)]
            /\ images' = [images EXCEPT ![i] = ImageAfterSave(@, payload)]
            /\ users' = [users EXCEPT ![u] = UserAfterSave(@, snap, i)]
            /\ saved' = [saved EXCEPT ![i] = Append(@, payload)]
            /\ last' = [op |-> "save_labels",
                        result |-> IF snap.exists THEN "updated" ELSE "created"]
    /\ txn' = [txn EXCEPT ![u] = IdleTxn]
    /\ ret' = NoRet
    /\ args' = [NoArgs EXCEPT !.image_id = i, !.user_id = u]

\* the attempt is aborted: none of its writes reaches the store
SaveAbort(u) ==
    /\ txn[u].pc = "save"
    /\ SaveConflict(u)
    /\ txn' = [txn EXCEPT ![u] = IdleTxn]
    /\ last' = [op |-> "save_labels", result |-> "Aborted"]
    /\ ret' = NoRet
    /\ args' = [NoArgs EXCEPT !.image_id = txn[u].image, !.user_id = u]
    /\ UNCHANGED <<store, saved>>

\* ----------------------------------------------------------- confirm_labels
\* labeler_id: labeled_by of the label document, NoUser when there is none
LabelerOf(lbl) ==
    IF lbl.exists THEN GetOr(lbl.doc, "labeled_by", NoUser) ELSE NoUser

ImageAfterConfirm(img, admin) ==
    Merge(img, [qa_status |-> "confirmed", qa_feedback |-> Null,
                assigned_to |-> NoUser, confirmed_by |-> admin])

\* only images_confirmed moved by the confirmation
UsersAfterConfirmOneCounter(usrs, labeler) ==
    IF labeler # NoUser
    THEN [usrs EXCEPT ![labeler] = IncUser(@, [images_confirmed |-> 1])]
    ELSE usrs

UsersAfterConfirm(usrs, labeler) ==
    IF labeler # NoUser
    THEN [usrs EXCEPT ![labeler] =
            IncUser(@, [images_confirmed |-> 1, images_to_review |-> -1])]
    ELSE usrs

\* the already-confirmed check left out
AlreadyConfirmedNever(img) == FALSE

\* prev_qa == "confirmed"
AlreadyConfirmed(img) == img.qa_status = "confirmed"

ConfirmLabels(i, admin) ==
    /\ IF AlreadyConfirmed(images[i])
       THEN /\ last' = [op |-> "confirm_labels", result |-> "noop"]
            /\ UNCHANGED store
       ELSE /\ images' = [images EXCEPT ![i] = ImageAfterConfirm(@, admin)]
            /\ users' = UsersAfterConfirm(users, LabelerOf(labels[i]))
            /\ last' = [op |-> "confirm_labels", result |-> "confirmed"]
            /\ UNCHANGED <<labels, revisions>>
    /\ ret' = NoRet
    /\ args' = [NoArgs EXCEPT !.image_id = i, !.user_id = admin]
    /\ UNCHANGED <<txn, saved>>

\* confirm_labels under concurrency: the transaction reads the image and its
\* label
ConfirmBegin(i, admin) ==
    /\ txn[admin].pc = "idle"
    /\ txn' = [txn EXCEPT ![admin] =
                [IdleTxn EXCEPT !.pc = "confirm", !.image = i,
                                !.simages = images, !.slabels = labels]]
    /\ UNCHANGED <<store, ret, last, saved, args>>

\* commits of confirm_labels never validated against concurrent writes
ConfirmConflictNever(admin) == FALSE

\* a document the transaction read was changed since
ConfirmConflict(admin) ==
    \/ images[txn[admin].image] # txn[admin].simages[txn[admin].image]
    \/ labels[txn[admin].image] # txn[admin].slabels[txn[admin].image]

\* the commit applies the image update and the counter increments together
ConfirmCommit(admin) ==
    LET i == txn[admin].image IN
    /\ txn[admin].pc = "confirm"
    /\ ~ConfirmConflict(admin)
    /\ IF AlreadyConfirmed(txn[admin].simages[i])
       THEN /\ last' = [op |-> "confirm_labels", result |-> "noop"]
            /\ UNCHANGED store
       ELSE /\ images' = [images EXCEPT ![i] = ImageAfterConfirm(@, admin)]
            /\ users' = UsersAfterConfirm(users,
                                          LabelerOf(txn[admin].slabels[i]))
            /\ last' = [op |-> "confirm_labels", result |-> "confirmed"]
            /\ UNCHANGED <<labels, revisions>>
    /\ txn' = [txn EXCEPT ![admin] = IdleTxn]
    /\ ret' = NoRet
    /\ args' = [NoArgs EXCEPT !.image_id = i, !.user_id = admin]
    /\ UNCHANGED saved

\* the attempt is aborted: none of its writes reaches the store
ConfirmAbort(admin) ==
    /\ txn[admin].pc = "confirm"
    /\ ConfirmConflict(admin)
    /\ txn' = [txn EXCEPT ![admin] = IdleTxn]
    /\ last' = [op |-> "confirm_labels", result |-> "Aborted"]
    /\ ret' = NoRet
    /\ args' = [NoArgs EXCEPT !.image_id = txn[admin].image,
                              !.user_id = admin]
    /\ UNCHANGED <<store, saved>>

\* --------------------------------------------------------- request_revision
\* feedback or ""
FeedbackOr(feedback) == IF feedback = Null THEN "" ELSE feedback

\* the image put back in progress by the revision request
ImageAfterRevisionReopens(img, labeler, admin, feedback) ==
    Merge(img, [qa_status |-> "review", qa_feedback |-> FeedbackOr(feedback),
                assigned_to |-> labeler, review_requested_by |-> admin,
                status |-> "in_progress"])

ImageAfterRevision(img, labeler, admin, feedback) ==
    Merge(img, [qa_status |-> "review", qa_feedback |-> FeedbackOr(feedback),
                assigned_to |-> labeler, review_requested_by |-> admin])

RequestRevision(i, labeler, admin, feedback) ==
    /\ images' = [images EXCEPT ![i] =
                    ImageAfterRevision(@, labeler, admin, feedback)]
    /\ ret' = NoRet
    /\ last' = [op |-> "request_revision", result |-> "review"]
    /\ args' = [NoArgs EXCEPT !.image_id = i, !.user_id = admin,
                              !.labeler_id = labeler, !.feedback = feedback]
    /\ UNCHANGED <<labels, revisions, users, txn, saved>>

\* ------------------------------------------------ admin_tools/unlock_tasks
\* the clock passes the expiry of a lock
Tick(i) ==
    /\ images[i].task_expires_at = Fresh
    /\ images' = [images EXCEPT ![i] = Merge(@, [task_expires_at |-> Stale])]
    /\ UNCHANGED <<labels, revisions, users, ret, last, txn, saved, args>>

\* q: status == "in_progress" and task_expires_at < now
StaleDocs(imgs) ==
    {i \in Images :
        imgs[i].status = "in_progress" /\ imgs[i].task_expires_at = Stale}

\* the users named in assigned_to of the matched documents
AffectedUsers(imgs, docs) ==
    {imgs[i].assigned_to : i \in docs} \ {NoUser}

\* the fields batch.update writes to each matched image; a deleted field
\* reads as a missing one
ImageAfterUnlock(img) ==
    Merge(img, [status |-> "unlabeled", assigned_to |-> NoUser,
                task_expires_at |-> Null, qa_status |-> "pending",
                qa_feedback |-> Null, review_requested_by |-> NoUser,
                confirmed_by |-> NoUser])

\* unlock_tasks --stale --execute: one batch for the images and the users
UnlockStale ==
    LET docs == StaleDocs(images) IN
    /\ images' = [i \in Images |->
                    IF i \in docs THEN ImageAfterUnlock(images[i])
                    ELSE images[i]]
    /\ users' = [u \in Users |->
                    IF u \in AffectedUsers(images, docs)
                    THEN Merge(users[u], [current_property_id |-> Null])
                    ELSE users[u]]
    /\ ret' = NoRet
    /\ last' = [op |-> "unlock_tasks",
                result |-> IF docs = {} THEN "none" ELSE "unlocked"]
    /\ args' = NoArgs
    /\ UNCHANGED <<labels, revisions, txn, saved>>

\* --------------------------------------------------- get_next_review_task
\* timestamp_created of a label document
CreatedAt(lbl) == lbl.doc.timestamp_created

\* the labels the query matches: labeled_by == labeler_id
LabelsBy(lbls, labeler_id) ==
    {i \in DOMAIN lbls : lbls[i].exists /\ LabelerOf(lbls[i]) = labeler_id}

\* the number of matched labels created later than label i
NewerThan(lbls, labeler_id, i) ==
    Cardinality({j \in LabelsBy(lbls, labeler_id) :
                    CreatedAt(lbls[j]) > CreatedAt(lbls[i])})

\* the query without its limit
ReviewStreamNoLimit(lbls, labeler_id) ==
    [k \in 1..Cardinality(LabelsBy(lbls, labeler_id)) |->
        CHOOSE i \in LabelsBy(lbls, labeler_id) :
            NewerThan(lbls, labeler_id, i) = k - 1]

\* q.stream(): order_by timestamp_created DESCENDING, limit
ReviewStream(lbls, labeler_id) ==
    LET n == Cardinality(LabelsBy(lbls, labeler_id))
        m == IF n < ReviewLimit THEN n ELSE ReviewLimit
    IN  [k \in 1..m |->
            CHOOSE i \in LabelsBy(lbls, labeler_id) :
                NewerThan(lbls, labeler_id, i) = k - 1]

RECURSIVE ScanNextReview(_, _, _, _, _)
\* the loop over the stream from its k-th document on; NoImage for None
ScanNextReview(stream, k, found, after_image_id, imgs) ==
    IF k > Len(stream) THEN NoImage
    ELSE LET img_id == stream[k] IN
         IF ~found
         THEN ScanNextReview(stream, k + 1, img_id = after_image_id,
                             after_image_id, imgs)
         ELSE IF img_id \notin DOMAIN imgs
         THEN ScanNextReview(stream, k + 1, found, after_image_id, imgs)
         ELSE IF Get(imgs[img_id], "qa_status") = "pending"
         THEN img_id
         ELSE ScanNextReview(stream, k + 1, found, after_image_id, imgs)

\* get_next_review_task: a query that writes nothing; the image it returns
\* is recorded under the labeler it was asked about
GetNextReviewTask(labeler_id, after_image_id) ==
    LET img == ScanNextReview(ReviewStream(labels, labeler_id), 1,
                              after_image_id = NoImage, after_image_id,
                              images)
    IN
    /\ ret' = [NoRet EXCEPT ![labeler_id] =
                  [called |-> TRUE, image |-> img]]
    /\ last' = [op |-> "get_next_review_task",
                result |-> IF img = NoImage THEN "none" ELSE "found"]
    /\ args' = [NoArgs EXCEPT !.labeler_id = labeler_id,
                              !.image_id = after_image_id]
    /\ UNCHANGED <<store, txn, saved>>

RECURSIVE ScanPrevReviewInclusive(_, _, _, _, _)
\* the loop with the pending test made before the comparison with
\* before_image_id, so that the image asked about can be returned itself
ScanPrevReviewInclusive(stream, k, prev, before_image_id, imgs) ==
    IF k > Len(stream) THEN NoImage
    ELSE LET img_id == stream[k]
             seen == IF /\ img_id \in DOMAIN imgs
                        /\ Get(imgs[img_id], "qa_status") = "pending"
                     THEN img_id ELSE prev
         IN  IF img_id = before_image_id THEN seen
             ELSE ScanPrevReviewInclusive(stream, k + 1, seen,
                                          before_image_id, imgs)

RECURSIVE ScanPrevReview(_, _, _, _, _)
\* the loop of get_prev_review_task from the k-th document on: prev is the
\* latest pending image passed, returned when before_image_id is met
ScanPrevReview(stream, k, prev, before_image_id, imgs) ==
    IF k > Len(stream) THEN NoImage
    ELSE LET img_id == stream[k] IN
         IF img_id = before_image_id THEN prev
         ELSE IF img_id \notin DOMAIN imgs
         THEN ScanPrevReview(stream, k + 1, prev, before_image_id, imgs)
         ELSE IF Get(imgs[img_id], "qa_status") = "pending"
         THEN ScanPrevReview(stream, k + 1, img_id, before_image_id, imgs)
         ELSE ScanPrevReview(stream, k + 1, prev, before_image_id, imgs)

\* get_prev_review_task: a query that writes nothing
GetPrevReviewTask(labeler_id, before_image_id) ==
    LET img == ScanPrevReview(ReviewStream(labels, labeler_id), 1, NoImage,
                              before_image_id, images)
    IN
    /\ ret' = [NoRet EXCEPT ![labeler_id] =
                  [called |-> TRUE, image |-> img]]
    /\ last' = [op |-> "get_prev_review_task",
                result |-> IF img = NoImage THEN "none" ELSE "found"]
    /\ args' = [NoArgs EXCEPT !.labeler_id = labeler_id,
                              !.image_id = before_image_id]
    /\ UNCHANGED <<store, txn, saved>>

\* ------------------------------------------------- fix_user_counters tool
RECURSIVE CountLabels(_, _, _, _, _)
\* the loop over the labels with labeled_by == uid: a label whose image
\* document is missing is skipped, the others counted by the image's qa_status
CountLabels(ids, lbls, imgs, uid, Q) ==
    IF ids = {} THEN 0
    ELSE LET i == CHOOSE x \in ids : TRUE
             hit == /\ lbls[i].exists
                    /\ LabelerOf(lbls[i]) = uid
                    /\ i \in DOMAIN imgs
                    /\ Get(ImageDoc(imgs, i), "qa_status") \in Q
         IN  (IF hit THEN 1 ELSE 0) +
             CountLabels(ids \ {i}, lbls, imgs, uid, Q)

\* a recount that keeps only the labels still waiting for a first review
ToReviewCountPendingOnly(lbls, imgs, uid) ==
    CountLabels(DOMAIN lbls, lbls, imgs, uid, {"pending"})

ConfirmedCount(lbls, imgs, uid) ==
    CountLabels(DOMAIN lbls, lbls, imgs, uid, {"confirmed"})

ToReviewCount(lbls, imgs, uid) ==
    CountLabels(DOMAIN lbls, lbls, imgs, uid, {"pending", "review"})

\* _process_user: recount and overwrite the three counters of uid
FixUserCounters(uid) ==
    LET confirmed == ConfirmedCount(labels, images, uid)
        to_review == ToReviewCount(labels, images, uid)
        processed == confirmed + to_review
    IN
    /\ users' = [users EXCEPT ![uid] =
                    Merge(@, [images_confirmed |-> confirmed,
                              images_to_review |-> to_review,
                              images_processed |-> processed])]
    /\ ret' = NoRet
    /\ last' = [op |-> "fix_user_counters", result |-> "updated"]
    /\ args' = [NoArgs EXCEPT !.user_id = uid]
    /\ UNCHANGED <<images, labels, revisions, txn, saved>>

\* --------------------------------------- get_next_task under concurrency
\* @firestore.transactional: the transaction reads a snapshot of the store
TxnBegin(w) ==
    /\ txn[w].pc = "idle"
    /\ txn' = [txn EXCEPT ![w] =
                [IdleTxn EXCEPT !.pc = "active", !.attempt = txn[w].attempt,
                                !.simages = images, !.susers = users]]
    /\ UNCHANGED <<store, ret, last, saved, args>>

\* the plan _txn computes on its snapshot
TxnPlan(w) == NextTaskPlan(txn[w].simages, txn[w].susers, w)

\* commits never validated against concurrent writes
TxnConflictNever(w) == FALSE

\* a document the transaction writes was changed since its snapshot
TxnConflict(w) ==
    \/ TxnPlan(w).wimage /\
          images[TxnPlan(w).image] # txn[w].simages[TxnPlan(w).image]
    \/ TxnPlan(w).wuser /\ users[w] # txn[w].susers[w]

\* the transaction commits: its writes are applied and the call returns
TxnCommit(w) ==
    /\ txn[w].pc = "active"
    /\ ~TxnConflict(w)
    /\ images' = ImagesAfter(images, TxnPlan(w), w)
    /\ users' = UsersAfter(users, TxnPlan(w), w)
    /\ ret' = [ret EXCEPT ![w] = [called |-> TRUE, image |-> TxnPlan(w).image]]
    /\ last' = [op |-> "get_next_task", result |-> TxnPlan(w).path]
    /\ args' = [NoArgs EXCEPT !.user_id = w]
    /\ txn' = [txn EXCEPT ![w] = IdleTxn]
    /\ UNCHANGED <<labels, revisions, saved>>

\* a loop "while True" around the transaction: an aborted attempt is always
\* run again
TxnAbortRetriesForever(w) ==
    /\ txn[w].pc = "active"
    /\ TxnConflict(w)
    /\ txn' = [txn EXCEPT ![w] =
                 [IdleTxn EXCEPT !.attempt =
                     IF txn[w].attempt + 1 < MaxAttempts
                     THEN txn[w].attempt + 1 ELSE txn[w].attempt]]
    /\ UNCHANGED <<store, saved, ret, last, args>>

\* the loop falling through to "return None" when the last attempt is aborted
TxnAbortReturnsNone(w) ==
    /\ txn[w].pc = "active"
    /\ TxnConflict(w)
    /\ IF txn[w].attempt + 1 < MaxAttempts
       THEN /\ txn' = [txn EXCEPT ![w] =
                        [IdleTxn EXCEPT !.attempt = txn[w].attempt + 1]]
            /\ UNCHANGED <<ret, last, args>>
       ELSE /\ txn' = [txn EXCEPT ![w] = IdleTxn]
            /\ ret' = [ret EXCEPT ![w] = [called |-> TRUE, image |-> NoImage]]
            /\ last' = [op |-> "get_next_task", result |-> "none"]
            /\ args' = [NoArgs EXCEPT !.user_id = w]
    /\ UNCHANGED <<store, saved>>

\* Aborted: the attempt is dropped with none of its writes; the loop
\* "for attempt in range(5)" runs the transaction again, and raises
\* RuntimeError when the last attempt is aborted too
TxnAbort(w) ==
    /\ txn[w].pc = "active"
    /\ TxnConflict(w)
    /\ IF txn[w].attempt + 1 < MaxAttempts
       THEN /\ txn' = [txn EXCEPT ![w] =
                        [IdleTxn EXCEPT !.attempt = txn[w].attempt + 1]]
            /\ UNCHANGED <<ret, last, args>>
       ELSE /\ txn' = [txn EXCEPT ![w] = IdleTxn]
            /\ ret' = [ret EXCEPT ![w] = [called |-> FALSE, image |-> NoImage]]
            /\ last' = [op |-> "get_next_task", result |-> "RuntimeError"]
            /\ args' = [NoArgs EXCEPT !.user_id = w]
    /\ UNCHANGED <<store, saved>>

\* ------------------------------------------------------------ specification
\* every call counts against the length of the run
Counted ==
    /\ calls < MaxCalls
    /\ calls' = calls + 1

\* Calls of the repository, each run to completion before the next one
\* starts: the task engine with every operation, one payload per caller.
Next ==
    \/ \E w \in Workers : Counted /\ GetNextTask(w)
    \/ \E i \in Images : Counted /\ ReleaseTask(i, 1, TRUE)
    \/ \E i \in Images : Counted /\ ReleaseTask(i, 1, FALSE)
    \/ \E i \in Images, u \in Workers :
          Counted /\ SaveLabels(i, [labeled_by |-> u], u)
    \/ \E i \in Images, a \in AdminUsers : Counted /\ ConfirmLabels(i, a)
    \/ \E i \in Images, l \in Workers, a \in AdminUsers :
          Counted /\ RequestRevision(i, l, a, Null)

Spec == Init /\ [][Next]_vars

\* The persistence engine: saves by a labeler and by an admin with payloads of
\* different key sets, on two of the images.
PersistImages == {1, 2}
PersistUsers == {1, 3}

PersistNext ==
    \/ \E w \in {1} : Counted /\ GetNextTask(w)
    \/ \E i \in {1} : Counted /\ ReleaseTask(i, 1, TRUE)
    \/ \E i \in PersistImages, u \in PersistUsers :
          \E p \in PayloadsOf(u) : Counted /\ SaveLabels(i, p, u)
    \/ \E i \in PersistImages, a \in AdminUsers : Counted /\ ConfirmLabels(i, a)
    \/ \E i \in PersistImages, a \in AdminUsers :
          Counted /\ RequestRevision(i, 1, a, "fb")

SpecPersist == Init /\ [][PersistNext]_vars

\* Concurrent get_next_task transactions of all users, each user saving the
\* task it holds between its calls.
TxnNext ==
    \/ \E w \in Users : TxnBegin(w) /\ UNCHANGED calls
    \/ \E w \in Users : TxnCommit(w) /\ UNCHANGED calls
    \/ \E w \in Users : TxnAbort(w) /\ UNCHANGED calls
    \/ \E w \in Users : \E i \in ResumeDocs(images, w) :
          /\ txn[w].pc = "idle"
          /\ SaveLabels(i, [labeled_by |-> w], w)
          /\ UNCHANGED calls

SpecTxn == Init /\ [][TxnNext]_vars

\* Contention on one image: get_next_task transactions of all users while an
\* admin keeps sending the first image back to the second worker, with and
\* without feedback. Each such write changes the image document, so an
\* attempt that planned to write it is aborted.
RetryNext ==
    \/ \E w \in Users : TxnBegin(w) /\ UNCHANGED calls
    \/ \E w \in Users : TxnCommit(w) /\ UNCHANGED calls
    \/ \E w \in Users : TxnAbort(w) /\ UNCHANGED calls
    \/ \E a \in AdminUsers : \E fb \in {Null, "fb"} :
          /\ ImageAfterRevision(images[1], 2, a, fb) # images[1]
          /\ RequestRevision(1, 2, a, fb)
          /\ UNCHANGED calls

SpecRetry == Init /\ [][RetryNext]_vars

\* what the call of worker w does next without waiting for anybody: the
\* transaction it runs commits or is aborted, and after the back-off sleep
\* the loop runs the next attempt
RetryStep(w) ==
    /\ \/ txn[w].attempt > 0 /\ TxnBegin(w)
       \/ TxnCommit(w)
       \/ TxnAbort(w)
    /\ UNCHANGED calls

\* Two callers and the admin who keeps changing image 1 under them, every
\* call in progress being run on.
RetryCallers == {1, 2}

RetryFairNext ==
    \/ \E w \in RetryCallers : TxnBegin(w) /\ UNCHANGED calls
    \/ \E w \in RetryCallers : TxnCommit(w) /\ UNCHANGED calls
    \/ \E w \in RetryCallers : TxnAbort(w) /\ UNCHANGED calls
    \/ \E a \in AdminUsers : \E fb \in {Null, "fb"} :
          /\ ImageAfterRevision(images[1], 2, a, fb) # images[1]
          /\ RequestRevision(1, 2, a, fb)
          /\ UNCHANGED calls

SpecRetryFair ==
    /\ Init
    /\ [][RetryFairNext]_vars
    /\ \A w \in RetryCallers : WF_vars(RetryStep(w))

\* The QA engine: confirm_labels transactions of two reviewers running
\* concurrently with each other, with saves of a labeler and of an admin and
\* with revision requests, on two of the images. confirm_labels reads no
\* role: its admin_id is whatever user id the caller passes.
QaImages == {1, 2}
Confirmers == {2, 3}
Savers == {1, 3}

QaNext ==
    \/ \E i \in QaImages, a \in Confirmers : Counted /\ ConfirmBegin(i, a)
    \/ \E a \in Confirmers : ConfirmCommit(a) /\ UNCHANGED calls
    \/ \E a \in Confirmers : ConfirmAbort(a) /\ UNCHANGED calls
    \/ \E i \in QaImages, u \in Savers :
          Counted /\ SaveLabels(i, [labeled_by |-> u], u)
    \/ \E i \in QaImages, a \in AdminUsers : \E fb \in {Null, "fb"} :
          Counted /\ RequestRevision(i, 1, a, fb)

SpecQa == Init /\ [][QaNext]_vars

\* Lock expiry: the workers take, save and are sent back tasks while the clock
\* passes the expiry of their locks and the reclaim pass runs.
ReclaimNext ==
    \/ \E w \in Workers : Counted /\ GetNextTask(w)
    \/ \E i \in Images : Tick(i) /\ UNCHANGED calls
    \/ Counted /\ UnlockStale
    \/ \E i \in Images, u \in Workers :
          Counted /\ SaveLabels(i, [labeled_by |-> u], u)
    \/ \E i \in Images, a \in AdminUsers : Counted /\ ConfirmLabels(i, a)
    \/ \E i \in Images, a \in AdminUsers :
          Counted /\ RequestRevision(i, 1, a, "fb")

SpecReclaim == Init /\ [][ReclaimNext]_vars

\* The save race: save_labels transactions of a labeler and of an admin on
\* the same images, running concurrently; a caller whose attempt was aborted
\* may save again.
SaveNext ==
    \/ \E i \in QaImages, u \in Savers : \E p \in PayloadsOf(u) :
          Counted /\ SaveBegin(i, p, u)
    \/ \E u \in Savers : SaveCommit(u) /\ UNCHANGED calls
    \/ \E u \in Savers : SaveAbort(u) /\ UNCHANGED calls

SpecSave == Init /\ [][SaveNext]_vars

\* ================================================================ properties
\* the label content live after the first k committed saves of a payload
\* sequence: each save merged into what the earlier ones left
RECURSIVE LiveAfter(_, _)
LiveAfter(payloads, k) ==
    IF k = 0 THEN <<>>
    ELSE Merge(LiveAfter(payloads, k - 1), payloads[k])

\* Confirmations racing on images the two labelers have saved: nobody sends
\* an image back and no admin saves, so an image is confirmed once for good.
RaceNext ==
    \/ \E i \in QaImages, u \in Workers :
          Counted /\ SaveLabels(i, [labeled_by |-> u], u)
    \/ \E i \in QaImages, a \in Confirmers : Counted /\ ConfirmBegin(i, a)
    \/ \E a \in Confirmers : ConfirmCommit(a) /\ UNCHANGED calls
    \/ \E a \in Confirmers : ConfirmAbort(a) /\ UNCHANGED calls

SpecConfirmRace == Init /\ [][RaceNext]_vars

\* A store whose oldest image was uploaded without a property_id: every user
\* asks for tasks, saves or abandons the image it holds.
NoPropertyImages == {1}

InitNoProperty ==
    /\ images = [i \in Images |->
                   IF i \in NoPropertyImages
                   THEN Merge(InitImage(i), [property_id |-> Null])
                   ELSE InitImage(i)]
    /\ labels = [i \in ImageIds |-> NoLabel]
    /\ revisions = [i \in ImageIds |-> <<>>]
    /\ users = [u \in Users |-> InitUser(u)]
    /\ ret = NoRet
    /\ last = [op |-> "init", result |-> "ok"]
    /\ txn = [u \in Users |-> IdleTxn]
    /\ saved = [i \in ImageIds |-> <<>>]
    /\ calls = 0
    /\ args = NoArgs

NoPropertyNext ==
    \/ \E w \in Users : Counted /\ GetNextTask(w)
    \/ \E i \in Images, u \in Users :
          /\ images[i].assigned_to = u
          /\ Counted
          /\ SaveLabels(i, [labeled_by |-> u], u)
    \/ \E i \in Images, u \in Users :
          /\ images[i].assigned_to = u
          /\ Counted
          /\ ReleaseTask(i, u, TRUE)

SpecNoProperty == InitNoProperty /\ [][NoPropertyNext]_vars

\* The review queue: the stores in which each image either has no label or
\* was saved once by labeler 1 or 2 at a time of its own and is pending, in
\* review or confirmed; the admin walks the queues and confirms images.
ReviewLabelers == {1, 2}
CreationTimes == {1, 2, 3}

\* image i as save_labels and the QA calls leave it
ReviewedImage(i, qa) ==
    Merge(InitImage(i), [status |-> "labeled", qa_status |-> qa])

InitReview ==
    /\ \E by \in [Images -> ReviewLabelers \cup {NoUser}] :
       \E qa \in [Images -> {"pending", "review", "confirmed"}] :
       \E at \in [Images -> CreationTimes] :
          /\ \A i, j \in Images : i # j => at[i] # at[j]
          /\ \A i \in Images : by[i] = NoUser => qa[i] = "pending"
          /\ images = [i \in Images |->
                         IF by[i] = NoUser THEN InitImage(i)
                         ELSE ReviewedImage(i, qa[i])]
          /\ labels = [i \in ImageIds |->
                         IF i \in Images /\ by[i] # NoUser
                         THEN [exists |-> TRUE,
                               doc |-> [labeled_by |-> by[i],
                                        timestamp_created |-> at[i]]]
                         ELSE NoLabel]
    /\ revisions = [i \in ImageIds |-> <<>>]
    /\ users = [u \in Users |-> InitUser(u)]
    /\ ret = NoRet
    /\ last = [op |-> "init", result |-> "ok"]
    /\ txn = [u \in Users |-> IdleTxn]
    /\ saved = [i \in ImageIds |-> <<>>]
    /\ calls = 0
    /\ args = NoArgs

ReviewNext ==
    \/ \E l \in ReviewLabelers, x \in ImageIds \cup {NoImage} :
          GetNextReviewTask(l, x) /\ UNCHANGED calls
    \/ \E i \in Images, a \in AdminUsers :
          /\ labels[i].exists
          /\ Counted
          /\ ConfirmLabels(i, a)

SpecReview == InitReview /\ [][ReviewNext]_vars

\* The admin walking a review queue forwards and backwards, nothing being
\* written meanwhile.
NavigateNext ==
    \/ \E l \in ReviewLabelers, x \in ImageIds \cup {NoImage} :
          GetNextReviewTask(l, x) /\ UNCHANGED calls
    \/ \E l \in ReviewLabelers, y \in ImageIds :
          GetPrevReviewTask(l, y) /\ UNCHANGED calls

SpecNavigate == InitReview /\ [][NavigateNext]_vars

\* Locks that run out while their holders stay away: the workers ask for
\* tasks and save, time passes, and images are reset by release_task, by the
\* unlock tool, sent back or confirmed by the admin.
ExpiryNext ==
    \/ \E w \in Workers : Counted /\ GetNextTask(w)
    \/ \E i \in Images : Tick(i) /\ UNCHANGED calls
    \/ Counted /\ UnlockStale
    \/ \E i \in Images, u \in Workers :
          Counted /\ ReleaseTask(i, u, TRUE)
    \/ \E i \in Images, u \in Workers :
          Counted /\ SaveLabels(i, [labeled_by |-> u], u)
    \/ \E i \in Images, a \in AdminUsers :
          Counted /\ RequestRevision(i, 1, a, "fb")
    \/ \E i \in Images, a \in AdminUsers : Counted /\ ConfirmLabels(i, a)

SpecExpiry == Init /\ [][ExpiryNext]_vars

\* The labeling loop: a pool in which any of the images may have been
\* uploaded without a property_id, and workers who ask for a task, save the
\* task they were given and ask again, for ever; nothing is released, reset
\* or reviewed.
InitPool ==
    /\ \E none \in SUBSET Images :
          images = [i \in Images |->
                      IF i \in none
                      THEN Merge(InitImage(i), [property_id |-> Null])
                      ELSE InitImage(i)]
    /\ labels = [i \in ImageIds |-> NoLabel]
    /\ revisions = [i \in ImageIds |-> <<>>]
    /\ users = [u \in Users |-> InitUser(u)]
    /\ ret = NoRet
    /\ last = [op |-> "init", result |-> "ok"]
    /\ txn = [u \in Users |-> IdleTxn]
    /\ saved = [i \in ImageIds |-> <<>>]
    /\ calls = 0
    /\ args = NoArgs

\* the worker has no task in hand and asks for one
AskTask(w) ==
    /\ ret[w].image = NoImage
    /\ GetNextTask(w)
    /\ UNCHANGED calls

\* the worker saves the task the last call returned
SaveTask(w) ==
    /\ ret[w].image # NoImage
    /\ SaveLabels(ret[w].image, [labeled_by |-> w], w)
    /\ UNCHANGED calls

WorkerStep(w) == AskTask(w) \/ SaveTask(w)

PoolNext ==
    \/ \E w \in Workers : AskTask(w)
    \/ \E w \in Workers : SaveTask(w)

SpecProgress ==
    /\ InitPool
    /\ [][PoolNext]_vars
    /\ \A w \in Workers : WF_vars(WorkerStep(w))

\* Saves, reviews and the counter repair: two labelers and an admin save
\* images 1 and 2 and an id that has no image document, the admin confirms
\* and sends back, and the repair tool recounts one user at a time.
RepairImages == {1, 2}
RepairUsers == {1, 2}

RepairNext ==
    \/ \E i \in RepairImages \cup {MissingImage}, u \in Users :
          Counted /\ SaveLabels(i, [labeled_by |-> u], u)
    \/ \E i \in RepairImages, a \in AdminUsers :
          Counted /\ ConfirmLabels(i, a)
    \/ \E i \in RepairImages, a \in AdminUsers :
          Counted /\ RequestRevision(i, 1, a, "fb")
    \/ \E u \in RepairUsers : Counted /\ FixUserCounters(u)

SpecRepair == Init /\ [][RepairNext]_vars

Counters(usr) ==
    <<usr.images_to_review, usr.images_confirmed, usr.images_processed>>

\* the labels of user u whose image has a qa_status in Q
LabelsOf(u, Q) ==
    {i \in Images : labels[i].exists /\ LabelerOf(labels[i]) = u
                    /\ images[i].qa_status \in Q}

\* C1: under concurrent get_next_task transactions an image that a worker
\* holds is never handed to another worker: once assigned_to is set no commit
\* changes it or returns the image to the pool, and every image a call returns
\* is in_progress and assigned to the caller when the call returns.
C1_ImageMutualExclusion ==
    [][ /\ \A i \in Images :
             images[i].assigned_to # NoUser =>
                /\ images'[i].assigned_to = images[i].assigned_to
                /\ images'[i].status # "unlabeled"
        /\ \A w \in Users :
             (ret'[w] # ret[w] /\ ret'[w].image # NoImage) =>
                /\ images'[ret'[w].image].status = "in_progress"
                /\ images'[ret'[w].image].assigned_to = w ]_vars

\* C1 witness: a transaction was aborted on a conflict while another worker
\* holds the first image.
C1_Witness ==
    \E w1, w2 \in Users :
        /\ w1 # w2
        /\ txn[w1].attempt >= 1
        /\ images[1].status = "in_progress"
        /\ images[1].assigned_to = w2

\* C2: under concurrent get_next_task transactions no property is the
\* current_property_id of two user documents.
C2_PropertyExclusive ==
    \A u1, u2 \in Users :
        (u1 # u2 /\ users[u1].current_property_id # Null) =>
            users[u1].current_property_id # users[u2].current_property_id

\* C2 witness: a transaction whose snapshot shows a property free plans to
\* claim it while another worker has taken it since.
C2_Witness ==
    \E w \in Users :
        /\ txn[w].pc = "active"
        /\ TxnPlan(w).path = "claim"
        /\ TakenByOther(users, TxnPlan(w).prop, w)

\* C3: each worker has at most one image with status in_progress assigned to
\* it.
C3_OneTaskPerWorker ==
    \A w \in Users : Cardinality(ResumeDocs(images, w)) <= 1

\* C4: for every user images_to_review + images_confirmed is the number of
\* labels with labeled_by that user whose image has qa_status pending, review
\* or confirmed.
C4_CounterSum ==
    \A u \in Users :
        users[u].images_to_review + users[u].images_confirmed =
            Cardinality(LabelsOf(u, {"pending", "review", "confirmed"}))

\* C5: for every user images_confirmed is the number of its labels on
\* confirmed images and images_to_review the number of its labels on pending
\* or review images.
C5_CounterPerState ==
    \A u \in Users :
        /\ users[u].images_confirmed = Cardinality(LabelsOf(u, {"confirmed"}))
        /\ users[u].images_to_review =
              Cardinality(LabelsOf(u, {"pending", "review"}))

\* C6: a committed save_labels adds 1 to the caller's images_to_review and
\* images_processed when the image had no label, and changes no counter of
\* any user when it had one.
C6_FirstSaveOnlyCounts ==
    [][ \A i \in Images :
          Len(saved'[i]) > Len(saved[i]) =>
            LET u == saved'[i][Len(saved'[i])].labeled_by IN
            IF labels[i].exists
            THEN \A v \in Users : Counters(users'[v]) = Counters(users[v])
            ELSE /\ users'[u].images_to_review = users[u].images_to_review + 1
                 /\ users'[u].images_processed = users[u].images_processed + 1
                 /\ users'[u].images_confirmed = users[u].images_confirmed
                 /\ \A v \in Users \ {u} :
                       Counters(users'[v]) = Counters(users[v]) ]_vars

\* C6 witness: an image saved three times, the latest save an edit.
C6_Witness ==
    /\ last = [op |-> "save_labels", result |-> "updated"]
    /\ \E i \in Images : Len(saved[i]) >= 3

\* C7: save_labels on a confirmed image by a user whose role is not admin
\* ends in a permission error and changes no image, label, revision or user
\* document.
C7_ConfirmedImmutable ==
    [][ \A i \in Images, u \in Users :
          \A p \in PayloadsOf(u) :
            (/\ images[i].qa_status = "confirmed"
             /\ users[u].role # "admin"
             /\ SaveLabels(i, p, u)) =>
                /\ last'.result = "PermissionError"
                /\ UNCHANGED <<images, labels, revisions, users>> ]_vars

\* C7 witness: a save was refused on a confirmed image that has a label.
C7_Witness ==
    /\ last = [op |-> "save_labels", result |-> "PermissionError"]
    /\ \E i \in Images : images[i].qa_status = "confirmed" /\ labels[i].exists

\* C8: after N committed saves of an image its label has N-1 revisions, the
\* k-th holding the label content live after the k-th save, and no step
\* changes or removes a revision already written.
C8_RevisionHistory ==
    /\ [](\A i \in Images :
            /\ Len(revisions[i]) =
                  (IF Len(saved[i]) = 0 THEN 0 ELSE Len(saved[i]) - 1)
            /\ \A k \in 1..Len(revisions[i]) :
                  revisions[i][k].payload = LiveAfter(saved[i], k))
    /\ [][ \A i \in Images :
             /\ Len(revisions'[i]) >= Len(revisions[i])
             /\ \A k \in 1..Len(revisions[i]) :
                   revisions'[i][k] = revisions[i][k] ]_vars

\* C8 witness: three saves of one image left two different revisions.
C8_Witness ==
    \E i \in Images :
        /\ Len(saved[i]) = 3
        /\ Len(revisions[i]) = 2
        /\ revisions[i][1].payload # revisions[i][2].payload

\* C9 as stated: the current label equals the payload of the latest save.
C9_CurrentEqualsLastPayload ==
    \A i \in Images :
        Len(saved[i]) > 0 => labels[i].doc = saved[i][Len(saved[i])]

\* C9: the current label carries the latest payload's value for every key of
\* that payload, and every other key it has keeps the value the label had
\* before that save.
C9_CurrentMergesLastPayload ==
    \A i \in Images :
        Len(saved[i]) > 0 =>
            LET n == Len(saved[i])
                p == saved[i][n]
                before == LiveAfter(saved[i], n - 1)
                doc == labels[i].doc
            IN  /\ labels[i].exists
                /\ DOMAIN doc = (DOMAIN p) \cup (DOMAIN before)
                /\ \A k \in DOMAIN p : doc[k] = p[k]
                /\ \A k \in (DOMAIN doc) \ (DOMAIN p) : doc[k] = before[k]

\* C9 witness: after a second save the label holds a key the latest payload
\* does not carry.
C9_Witness ==
    \E i \in Images :
        /\ Len(saved[i]) >= 2
        /\ (DOMAIN labels[i].doc) \ (DOMAIN saved[i][Len(saved[i])]) # {}

SentBack(w) ==
    {i \in Images : images[i].qa_status = "review" /\ images[i].assigned_to = w}

\* the images worker w holds in progress
Held(w) ==
    {i \in Images :
        images[i].status = "in_progress" /\ images[i].assigned_to = w}

\* C11: a get_next_task call of a worker who has an image sent back for
\* revision returns such an image, in_progress and with task_expires_at set
\* anew; the call changes no other image (it claims nothing from the pool)
\* and leaves the worker's current_property_id as it was, whether or not the
\* worker holds another in_progress image.
C11_RevisionPriority ==
    [][ \A w \in Users :
          (/\ last'.op = "get_next_task"
           /\ args'.user_id = w
           /\ SentBack(w) # {}) =>
              /\ ret'[w].called
              /\ ret'[w].image \in SentBack(w)
              /\ images'[ret'[w].image].status = "in_progress"
              /\ images'[ret'[w].image].task_expires_at = Fresh
              /\ \A j \in Images \ {ret'[w].image} : images'[j] = images[j]
              /\ users'[w].current_property_id =
                    users[w].current_property_id ]_vars

\* C11 witness: a call returned an image sent back for revision to a worker
\* who holds another image in progress.
C11_Witness ==
    \E w \in Users :
        /\ last.op = "get_next_task"
        /\ args.user_id = w
        /\ ret[w].image # NoImage
        /\ images[ret[w].image].qa_status = "review"
        /\ images[ret[w].image].task_expires_at = Fresh
        /\ Held(w) \ {ret[w].image} # {}

\* the scan window: the ScanLimit oldest unlabeled images of a store
Window(imgs) ==
    {i \in Images :
        /\ imgs[i].status = "unlabeled"
        /\ Cardinality({j \in Images : imgs[j].status = "unlabeled" /\ j < i})
              < ScanLimit}

\* a store offers worker w nothing: no image sent back to w, no image held by
\* w, and every image of the scan window is of w's current property or of a
\* property that is null or the current property of another user
NothingClaimable(imgs, usrs, w) ==
    /\ \A i \in Images :
          ~(imgs[i].qa_status = "review" /\ imgs[i].assigned_to = w)
    /\ \A i \in Images :
          ~(imgs[i].status = "in_progress" /\ imgs[i].assigned_to = w)
    /\ \A i \in Window(imgs) :
          /\ imgs[i].property_id # usrs[w].current_property_id
          /\ \/ imgs[i].property_id = Null
             \/ \E u \in Users \ {w} :
                   usrs[u].current_property_id = imgs[i].property_id

\* C12: a get_next_task call that returns None ends with an attempt that
\* committed (nothing it writes was changed since it read the store) and
\* whose reads offered the worker nothing; a call whose last attempt is
\* aborted has made MaxAttempts attempts and ends in RuntimeError with no
\* result returned, never with None.
C12_NoneOnlyFromCommit ==
    [][ \A w \in Users :
          (txn[w].pc = "active" /\ txn'[w] = IdleTxn) =>
              /\ (ret'[w].called /\ ret'[w].image = NoImage) =>
                    /\ ~TxnConflict(w)
                    /\ NothingClaimable(txn[w].simages, txn[w].susers, w)
                    /\ images' = images
              /\ TxnConflict(w) =>
                    /\ txn[w].attempt = MaxAttempts - 1
                    /\ last' = [op |-> "get_next_task",
                                result |-> "RuntimeError"]
                    /\ ~ret'[w].called
                    /\ store' = store ]_vars

\* C12 witness: a call ended in RuntimeError after its last attempt was
\* aborted, and another call has returned None.
C12_Witness ==
    /\ last = [op |-> "get_next_task", result |-> "RuntimeError"]
    /\ ~ret[args.user_id].called
    /\ \E w \in Users : ret[w].called /\ ret[w].image = NoImage

\* the images of the scan window that belong to worker w's current property
SameProperty(w) ==
    {i \in Window(images) :
        images[i].property_id = users[w].current_property_id}

\* the oldest image of a set
Oldest(S) == CHOOSE i \in S : \A j \in S : i <= j

\* a get_next_task call of worker w that finds no image sent back to w and no
\* image held by w is completing
ClaimingCall(w) ==
    /\ last'.op = "get_next_task"
    /\ args'.user_id = w
    /\ SentBack(w) = {}
    /\ Held(w) = {}

\* C14: a get_next_task call of a worker with nothing sent back and nothing
\* held, whose current_property_id is set and has an image in the scan
\* window, returns the oldest such image, now in_progress, assigned to the
\* worker and with task_expires_at set; no other image changes, the
\* worker's current_property_id stays and no other user document changes.
C14_AffinityContinuation ==
    [][ \A w \in Users :
          (/\ ClaimingCall(w)
           /\ users[w].current_property_id # Null
           /\ SameProperty(w) # {}) =>
              LET i == Oldest(SameProperty(w)) IN
              /\ ret'[w] = [called |-> TRUE, image |-> i]
              /\ images'[i].status = "in_progress"
              /\ images'[i].assigned_to = w
              /\ images'[i].task_expires_at = Fresh
              /\ \A j \in Images \ {i} : images'[j] = images[j]
              /\ users'[w].current_property_id = users[w].current_property_id
              /\ \A u \in Users \ {w} : users'[u] = users[u] ]_vars

\* C14 witness: a worker continued in its property with the older of two
\* images of that property, the other one still in the pool.
C14_Witness ==
    \E w \in Users, j \in Images :
        /\ last = [op |-> "get_next_task", result |-> "continue"]
        /\ args.user_id = w
        /\ ret[w].image # NoImage
        /\ j > ret[w].image
        /\ images[j].status = "unlabeled"
        /\ images[j].property_id = users[w].current_property_id
        /\ images[ret[w].image].property_id = users[w].current_property_id

\* the images of a store's scan window that worker w may claim as a new
\* property: the property is not null and is the current property of no
\* other user
Free(imgs, usrs, w) ==
    {i \in Window(imgs) :
        /\ imgs[i].property_id # Null
        /\ \A u \in Users \ {w} :
              usrs[u].current_property_id # imgs[i].property_id}

\* C15: a get_next_task transaction that commits after reading a store with
\* nothing sent back to the worker, nothing held by it and no window image of
\* its current property, and with a window image of a free property, returns
\* the oldest such image, in_progress and assigned to the worker, and the
\* same commit sets the worker's current_property_id to that image's
\* property. In no step is one of the two written without the other: a
\* current_property_id becomes a property only in a step that hands the
\* worker an image of it, and an image leaves the pool for a worker only in a
\* step after which the worker's current_property_id is its property.
C15_ClaimNewProperty ==
    [][ \A w \in Users :
          /\ (/\ txn[w].pc = "active"
              /\ txn'[w] = IdleTxn
              /\ ret'[w].called
              /\ \A i \in Images :
                    /\ ~(txn[w].simages[i].qa_status = "review"
                         /\ txn[w].simages[i].assigned_to = w)
                    /\ ~(txn[w].simages[i].status = "in_progress"
                         /\ txn[w].simages[i].assigned_to = w)
              /\ \A i \in Window(txn[w].simages) :
                    txn[w].simages[i].property_id #
                        txn[w].susers[w].current_property_id
              /\ Free(txn[w].simages, txn[w].susers, w) # {}) =>
                 LET i == Oldest(Free(txn[w].simages, txn[w].susers, w)) IN
                 /\ ret'[w].image = i
                 /\ images[i].status = "unlabeled"
                 /\ images'[i].status = "in_progress"
                 /\ images'[i].assigned_to = w
                 /\ users'[w].current_property_id = images[i].property_id
          /\ (/\ users'[w].current_property_id # users[w].current_property_id
              /\ users'[w].current_property_id # Null) =>
                 \E i \in Images :
                    /\ images[i].status = "unlabeled"
                    /\ images'[i].status = "in_progress"
                    /\ images'[i].assigned_to = w
                    /\ images'[i].property_id = users'[w].current_property_id
          /\ \A i \in Images :
                (/\ images[i].status = "unlabeled"
                 /\ images'[i].status = "in_progress"
                 /\ images'[i].assigned_to = w) =>
                    users'[w].current_property_id = images'[i].property_id
        ]_vars

\* C15 witness: a worker claimed a new property with the first image whose
\* property was free, passing over an older image of a property that another
\* user holds.
C15_Witness ==
    \E w \in Users, j \in Images :
        /\ last = [op |-> "get_next_task", result |-> "claim"]
        /\ args.user_id = w
        /\ ret[w].image # NoImage
        /\ j < ret[w].image
        /\ images[j].status = "unlabeled"
        /\ \E u \in Users \ {w} :
              users[u].current_property_id = images[j].property_id
        /\ users[w].current_property_id = images[ret[w].image].property_id

Confirming(i) ==
    images[i].qa_status # "confirmed" /\ images'[i].qa_status = "confirmed"

\* labeled_by of the label of image i, NoUser when there is none
LabeledBy(i) ==
    IF labels[i].exists /\ "labeled_by" \in DOMAIN labels[i].doc
    THEN labels[i].doc.labeled_by ELSE NoUser

\* C17: a confirm_labels transaction that commits on an image not yet
\* confirmed makes it confirmed with qa_feedback removed and assigned_to
\* null, and the same step adds 1 to images_confirmed and takes 1 from
\* images_to_review of the user its label names in labeled_by; an aborted
\* attempt changes nothing. No step moves images_confirmed of a user, and
\* no confirm_labels step moves images_to_review, except by that pair of
\* changes together with the confirmation of an image labeled by that user.
C17_ConfirmTransition ==
    [][ /\ \A a \in Users :
             (txn[a].pc = "confirm" /\ txn'[a].pc = "idle") =>
                LET i == txn[a].image IN
                IF ConfirmConflict(a)
                THEN store' = store
                ELSE images[i].qa_status # "confirmed" => Confirming(i)
        /\ \A i \in Images :
             Confirming(i) =>
                /\ last'.op = "confirm_labels"
                /\ args'.image_id = i
                /\ images'[i].qa_feedback = Null
                /\ images'[i].assigned_to = NoUser
                /\ LabeledBy(i) # NoUser =>
                      /\ users'[LabeledBy(i)].images_confirmed =
                            users[LabeledBy(i)].images_confirmed + 1
                      /\ users'[LabeledBy(i)].images_to_review =
                            users[LabeledBy(i)].images_to_review - 1
        /\ \A u \in Users :
             (\/ users'[u].images_confirmed # users[u].images_confirmed
              \/ /\ last'.op = "confirm_labels"
                 /\ users'[u].images_to_review # users[u].images_to_review) =>
                /\ users'[u].images_confirmed = users[u].images_confirmed + 1
                /\ users'[u].images_to_review = users[u].images_to_review - 1
                /\ \E i \in Images : Confirming(i) /\ LabeledBy(i) = u
      ]_vars

\* C17 witness: a confirmation attempt was aborted on an image that a
\* concurrent transaction had confirmed, the labeler's counters moved once.
C17_Witness ==
    /\ last = [op |-> "confirm_labels", result |-> "Aborted"]
    /\ images[args.image_id].qa_status = "confirmed"
    /\ images[args.image_id].confirmed_by # args.user_id
    /\ images[args.image_id].qa_feedback = Null
    /\ labels[args.image_id].exists
    /\ users[labels[args.image_id].doc.labeled_by].images_confirmed = 1
    /\ users[labels[args.image_id].doc.labeled_by].images_to_review = 0

\* C18: a confirm_labels call that completes on an image whose qa_status is
\* already confirmed, by the admin who confirmed it or by another, changes
\* no image, label, revision or user document.
C18_ConfirmIdempotent ==
    [][ \A a \in Users :
          (/\ txn[a].pc = "confirm"
           /\ txn'[a].pc = "idle"
           /\ images[txn[a].image].qa_status = "confirmed") =>
              /\ images' = images
              /\ labels' = labels
              /\ revisions' = revisions
              /\ users' = users ]_vars

\* C18 witness: a second confirmation of an image, by another admin than the
\* one who confirmed it, committed as a no-op.
C18_Witness ==
    /\ last = [op |-> "confirm_labels", result |-> "noop"]
    /\ images[args.image_id].qa_status = "confirmed"
    /\ images[args.image_id].confirmed_by # args.user_id
    /\ labels[args.image_id].exists
    /\ users[labels[args.image_id].doc.labeled_by].images_confirmed = 1

\* the fields request_revision sets
RevisionFields ==
    {"qa_status", "qa_feedback", "assigned_to", "review_requested_by"}

\* a request_revision step leaves everything but the four fields of its
\* image as it was: every other field of the image, status included, every
\* other image, the labels, the revisions and the user documents
RevisionFrame ==
    /\ \A k \in (DOMAIN images[args'.image_id]) \ RevisionFields :
          images'[args'.image_id][k] = images[args'.image_id][k]
    /\ DOMAIN images'[args'.image_id] = DOMAIN images[args'.image_id]
    /\ \A j \in Images \ {args'.image_id} : images'[j] = images[j]
    /\ labels' = labels
    /\ revisions' = revisions
    /\ \A u \in Users : Counters(users'[u]) = Counters(users[u])

\* C19 as stated: request_revision sets qa_status to review, qa_feedback to
\* the feedback passed, assigned_to to the labeler and review_requested_by
\* to the admin, and changes nothing else.
C19_RevisionStoresFeedback ==
    [][ last'.op = "request_revision" =>
          /\ images'[args'.image_id].qa_status = "review"
          /\ images'[args'.image_id].qa_feedback = args'.feedback
          /\ images'[args'.image_id].assigned_to = args'.labeler_id
          /\ images'[args'.image_id].review_requested_by = args'.user_id
          /\ RevisionFrame ]_vars

\* C19: request_revision sets qa_status to review, qa_feedback to the
\* feedback passed or to the empty string when the feedback passed is None,
\* assigned_to to the labeler and review_requested_by to the admin, and
\* changes nothing else, whatever qa_status the image had.
C19_RevisionStoresFeedbackOrEmpty ==
    [][ last'.op = "request_revision" =>
          /\ images'[args'.image_id].qa_status = "review"
          /\ images'[args'.image_id].qa_feedback =
                (IF args'.feedback = Null THEN "" ELSE args'.feedback)
          /\ images'[args'.image_id].assigned_to = args'.labeler_id
          /\ images'[args'.image_id].review_requested_by = args'.user_id
          /\ RevisionFrame ]_vars

\* C19 witness: a revision was requested without feedback on an image that
\* had been confirmed; its labeler's counters still show it confirmed.
C19_Witness ==
    /\ last.op = "request_revision"
    /\ args.feedback = Null
    /\ images[args.image_id].qa_status = "review"
    /\ images[args.image_id].qa_feedback = ""
    /\ images[args.image_id].confirmed_by # NoUser
    /\ images[args.image_id].status = "labeled"
    /\ labels[args.image_id].exists
    /\ users[labels[args.image_id].doc.labeled_by].images_confirmed = 1

ReleaseFields == {"status", "assigned_to", "task_expires_at"}

\* C21: release_task with abandon=True leaves its image unlabeled with
\* assigned_to and task_expires_at null and changes no other field of it, no
\* other image, no label, no revision and no user document; with
\* abandon=False it changes no document.
C21_ReleaseFrame ==
    [][ last'.op = "release_task" =>
          IF args'.abandon
          THEN /\ images'[args'.image_id].status = "unlabeled"
               /\ images'[args'.image_id].assigned_to = NoUser
               /\ images'[args'.image_id].task_expires_at = Null
               /\ \A k \in (DOMAIN images[args'.image_id]) \ ReleaseFields :
                     images'[args'.image_id][k] = images[args'.image_id][k]
               /\ \A j \in Images \ {args'.image_id} : images'[j] = images[j]
               /\ labels' = labels
               /\ revisions' = revisions
               /\ users' = users
          ELSE store' = store ]_vars

\* C21 witness: the worker abandoned an image of the property it holds; the
\* image is back in the pool and the worker's current_property_id is still
\* that property.
C21_Witness ==
    /\ last = [op |-> "release_task", result |-> "abandon"]
    /\ args.abandon
    /\ images[args.image_id].status = "unlabeled"
    /\ images[args.image_id].task_expires_at = Null
    /\ users[args.user_id].current_property_id =
          images[args.image_id].property_id

\* the oldest unlabeled image of the store, NoImage when the pool is empty
OldestUnlabeled ==
    IF \E i \in Images : images[i].status = "unlabeled"
    THEN Oldest({i \in Images : images[i].status = "unlabeled"})
    ELSE NoImage

\* C22: when a worker has just abandoned an image of the property it took
\* with get_next_task, a get_next_task call of any other worker who has no
\* image sent back and none in progress, and for whom the abandoned image is
\* the oldest unlabeled one, returns that image.
C22_AbandonedReturnsToPool ==
    [][ \A w2 \in Users :
          (/\ last = [op |-> "release_task", result |-> "abandon"]
           /\ users[args.user_id].current_property_id =
                 images[args.image_id].property_id
           /\ OldestUnlabeled = args.image_id
           /\ w2 # args.user_id
           /\ last'.op = "get_next_task"
           /\ args'.user_id = w2
           /\ SentBack(w2) = {}
           /\ Held(w2) = {}) =>
              ret'[w2] = [called |-> TRUE, image |-> args.image_id] ]_vars

\* the image as release_task with abandon=True leaves it
Abandoned(img) ==
    [k \in DOMAIN img |->
        IF k = "status" THEN "unlabeled"
        ELSE IF k = "assigned_to" THEN NoUser
        ELSE IF k = "task_expires_at" THEN Null
        ELSE img[k]]

\* C23: the reclaim pass changes only images that are in_progress with a
\* task_expires_at earlier than now, and leaves each of them as release_task
\* with abandon=True would, with every user document, label and revision
\* unchanged as release_task leaves them.
C23_ReclaimEqualsAbandon ==
    [][ last'.op = "unlock_tasks" =>
          /\ \A i \in Images :
                images'[i] =
                    IF /\ images[i].status = "in_progress"
                       /\ images[i].task_expires_at = Stale
                    THEN Abandoned(images[i])
                    ELSE images[i]
          /\ users' = users
          /\ labels' = labels
          /\ revisions' = revisions ]_vars

\* every key of the payload carries the payload's value in the document
Contains(doc, payload) ==
    \A k \in DOMAIN payload : k \in DOMAIN doc /\ doc[k] = payload[k]

\* C24: under concurrent save_labels transactions on the same image, the
\* payload of the latest committed save is in the current label and the
\* payload of every earlier committed save is in a revision record: no
\* committed payload is in neither.
C24_NoPayloadLost ==
    \A i \in Images :
        \A k \in 1..Len(saved[i]) :
            IF k = Len(saved[i])
            THEN labels[i].exists /\ Contains(labels[i].doc, saved[i][k])
            ELSE \E r \in 1..Len(revisions[i]) :
                    Contains(revisions[i][r].payload, saved[i][k])

\* C24 witness: two callers raced on one image with different payloads; one
\* attempt was aborted and saved again, and both payloads are committed.
C24_Witness ==
    \E i \in Images :
        /\ calls = 3
        /\ \A u \in Users : txn[u].pc = "idle"
        /\ \A j \in Images \ {i} : Len(saved[j]) = 0
        /\ Len(saved[i]) = 2
        /\ saved[i][1].labeled_by # saved[i][2].labeled_by
        /\ saved[i][1].notes # saved[i][2].notes
        /\ last = [op |-> "save_labels", result |-> "updated"]

\* C25: right after fix_user_counters has run for a user, that user's
\* images_confirmed is the number of labels with labeled_by that user whose
\* image is confirmed, images_to_review the number of those whose image is
\* pending or in review, and images_processed the sum of the two, whatever
\* the counters were before.
C25_RecountExact ==
    \A u \in Users :
        (last.op = "fix_user_counters" /\ args.user_id = u) =>
            /\ users[u].images_confirmed =
                  Cardinality(LabelsOf(u, {"confirmed"}))
            /\ users[u].images_to_review =
                  Cardinality(LabelsOf(u, {"pending", "review"}))
            /\ users[u].images_processed =
                  users[u].images_confirmed + users[u].images_to_review

\* C25 witness: user 1 saved image 1, user 2 saved it again and took the
\* label over, and the recount brought user 1's counters from 1 back to 0
\* while user 2's label count stays uncounted.
C25_Witness ==
    /\ calls = 3
    /\ last = [op |-> "fix_user_counters", result |-> "updated"]
    /\ args.user_id = 1
    /\ Len(saved[1]) = 2
    /\ saved[1][1].labeled_by = 1
    /\ LabeledBy(1) = 2
    /\ users[1].images_processed = 0

\* a document the plan of w's running attempt writes differs from the
\* snapshot the attempt took
Outdated(w) ==
    LET plan == TxnPlan(w) IN
    \/ plan.wimage /\ images[plan.image] # txn[w].simages[plan.image]
    \/ plan.wuser /\ users[w] # txn[w].susers[w]

\* C26: a get_next_task call makes at most 5 attempts: an attempt that is
\* not aborted ends the call with that attempt's result, each of the first
\* four aborts leads to exactly one more attempt, the fifth consecutive abort
\* ends the call in RuntimeError, and every call that has started ends.
C26_BoundedRetry ==
    /\ [](\A w \in Users : txn[w].attempt < 5)
    /\ [][ \A w \in Users :
             (txn[w].pc = "active" /\ txn'[w] # txn[w]) =>
                IF ~Outdated(w)
                THEN /\ txn'[w] = IdleTxn
                     /\ ret'[w] = [called |-> TRUE, image |-> TxnPlan(w).image]
                ELSE IF txn[w].attempt < 4
                THEN /\ txn'[w].pc = "idle"
                     /\ txn'[w].attempt = txn[w].attempt + 1
                     /\ ret'[w] = ret[w]
                ELSE /\ txn'[w] = IdleTxn
                     /\ ~ret'[w].called
                     /\ last' = [op |-> "get_next_task",
                                 result |-> "RuntimeError"] ]_vars
    /\ \A w \in Users : (txn[w] # IdleTxn) ~> (txn[w] = IdleTxn)

\* C26 witness: a call in its fifth attempt that is about to be aborted
\* while another call returned an image at its second attempt.
C26_Witness ==
    \E w, v \in Users :
        /\ txn[w].pc = "active"
        /\ txn[w].attempt = 4
        /\ Outdated(w)
        /\ v # w
        /\ ret[v].called
        /\ ret[v].image # NoImage

\* C27: a save_labels call whose image_id names no image document ends in an
\* error and leaves every image, label, revision and user document, counters
\* and bookkeeping fields included, as it was.
C27_SaveMissingImage ==
    [][ \A i \in ImageIds :
          (/\ calls' # calls
           /\ last'.op = "save_labels"
           /\ args'.image_id = i
           /\ i \notin DOMAIN images) =>
              /\ last'.result \notin {"created", "updated"}
              /\ UNCHANGED <<images, labels, revisions, users>> ]_vars

\* C27 witness: after user 1 saved image 1, a save by user 2 under the id
\* without an image document was refused.
C27_Witness ==
    /\ last = [op |-> "save_labels", result |-> "NotFound"]
    /\ args.image_id = MissingImage
    /\ args.user_id = 2
    /\ users[1].last_labeled_image_id = 1

\* the images whose first committed save was made by user u
FirstSavedBy(u) ==
    {i \in Images : Len(saved[i]) > 0 /\ saved[i][1].labeled_by = u}

\* the confirmed images whose label names user u in labeled_by
ConfirmedFor(u) ==
    {i \in Images : images[i].qa_status = "confirmed" /\ LabeledBy(i) = u}

\* C28: however confirm_labels transactions on the same image interleave,
\* each confirmed image has added exactly 1 to images_confirmed and taken
\* exactly 1 from images_to_review of the user its label names: a user's
\* images_confirmed is the number of confirmed images labeled by that user,
\* and images_to_review the number of images the user saved first less that.
C28_ConfirmCountsOnce ==
    \A u \in Users :
        /\ users[u].images_confirmed = Cardinality(ConfirmedFor(u))
        /\ users[u].images_to_review =
              Cardinality(FirstSavedBy(u)) - Cardinality(ConfirmedFor(u))

\* C28 witness: two transactions read image 1 before it was confirmed, one
\* has committed and the other is still to end.
C28_Witness ==
    \E a, b \in Users :
        /\ txn[a].pc = "confirm"
        /\ txn[a].image = 1
        /\ txn[a].simages[1].qa_status # "confirmed"
        /\ images[1].qa_status = "confirmed"
        /\ images[1].confirmed_by = b
        /\ b # a
        /\ LabeledBy(1) # NoUser
        /\ users[LabeledBy(1)].images_confirmed = 1

\* C29: an image whose property_id is null is never assigned by
\* get_next_task: whatever tasks the users ask for, save and abandon, it
\* stays unlabeled and unassigned, and no call returns it.
C29_NoPropertyNeverClaimed ==
    \A i \in Images :
        images[i].property_id = Null =>
            /\ images[i].status = "unlabeled"
            /\ images[i].assigned_to = NoUser
            /\ \A w \in Users : ret[w].image # i

\* C29 witness: a worker whose property had no image left was given the
\* image of another property although the older image without property was
\* among the candidates.
C29_Witness ==
    /\ last = [op |-> "get_next_task", result |-> "claim"]
    /\ images[1].property_id = Null
    /\ images[2].status = "labeled"
    /\ \E w \in Users :
          /\ ret[w] = [called |-> TRUE, image |-> 3]
          /\ LabeledBy(2) = w

\* the labels of labeler l, by the number of that labeler's labels created
\* later
Rank(l, i) ==
    Cardinality({j \in Images :
        /\ LabeledBy(j) = l
        /\ labels[j].doc.timestamp_created > labels[i].doc.timestamp_created})

\* the most recently created labels of labeler l, ReviewLimit at most
Queue(l) == {i \in Images : LabeledBy(i) = l /\ Rank(l, i) < ReviewLimit}

\* the labels of the queue of l that a walk from x has still to come to and
\* whose image is pending
Ahead(l, x) ==
    {i \in Queue(l) :
        /\ images[i].qa_status = "pending"
        /\ x # NoImage => (x \in Queue(l) /\ Rank(l, i) > Rank(l, x))}

\* C30: get_next_review_task(l, x) returns, of the ReviewLimit most recently
\* created labels of l, the most recent one created before the label of x
\* whose image is pending (the most recent pending one when x is omitted),
\* and None when there is none or x is not among those labels.
C30_NextReviewTask ==
    last.op = "get_next_review_task" =>
        LET l == args.labeler_id
            x == args.image_id
            r == ret[l].image
        IN  IF Ahead(l, x) = {} THEN r = NoImage
            ELSE /\ r \in Ahead(l, x)
                 /\ \A i \in Ahead(l, x) : Rank(l, r) <= Rank(l, i)

\* C30 witness: labeler 1 has three labels, the call after the newest one
\* passed over the second, which is confirmed, and returned nothing because
\* the third, pending, lies beyond the limit.
C30_Witness ==
    /\ last = [op |-> "get_next_review_task", result |-> "none"]
    /\ args.labeler_id = 1
    /\ \A i \in Images : LabeledBy(i) = 1
    /\ args.image_id \in Images
    /\ Rank(1, args.image_id) = 0
    /\ \E i \in Images : Rank(1, i) = 1 /\ images[i].qa_status = "confirmed"
    /\ \E i \in Images : Rank(1, i) = 2 /\ images[i].qa_status = "pending"

C32_ToReviewNonNegative ==
    \A u \in Users : users[u].images_to_review >= 0

\* C33: images_processed of every user equals images_to_review +
\* images_confirmed in every state reached from zero counters by save_labels,
\* confirm_labels and request_revision calls, and no step lowers it.
C33_ProcessedIsSum ==
    /\ [](\A u \in Users :
            users[u].images_processed =
                users[u].images_to_review + users[u].images_confirmed)
    /\ [][ \A u \in Users :
             users'[u].images_processed >= users[u].images_processed ]_vars

\* C33 witness: a user with two images processed, one of them confirmed a
\* second time after it was sent back, the other never confirmed.
C33_Witness ==
    \E u \in Users :
        /\ users[u].images_processed = 2
        /\ users[u].images_confirmed = 2
        /\ users[u].images_to_review = 0
        /\ \E i \in Images : LabeledBy(i) = u /\ images[i].qa_status = "pending"

\* image i is in progress for a user other than w
LockedByOther(i, w) ==
    /\ images[i].status = "in_progress"
    /\ images[i].assigned_to # w
    /\ images[i].assigned_to # NoUser

\* C34: a get_next_task call of worker w neither returns nor changes an
\* image that is in progress for another worker, whether or not its
\* task_expires_at has passed; a call that resumes w's own image writes no
\* document, so the lock is not renewed; and an image in progress becomes
\* unlabeled again only by release_task or the unlock tool.
C34_ExpiryNotEnforced ==
    [][ /\ \A w \in Users :
             (/\ calls' # calls
              /\ last'.op = "get_next_task"
              /\ args'.user_id = w) =>
                /\ \A i \in Images :
                      LockedByOther(i, w) =>
                         /\ images'[i] = images[i]
                         /\ ret'[w].image # i
                /\ (Held(w) # {} /\ SentBack(w) = {}) =>
                      /\ ret'[w].image \in Held(w)
                      /\ store' = store
        /\ \A i \in Images :
             (/\ images[i].status = "in_progress"
              /\ images'[i].status = "unlabeled") =>
                last'.op \in {"release_task", "unlock_tasks"} ]_vars

\* C34 witness: worker 2 was given nothing while the only image left of the
\* one property not exhausted is behind a lock of worker 1 that has run out.
C34_Witness ==
    /\ last = [op |-> "get_next_task", result |-> "none"]
    /\ args.user_id = 2
    /\ images[1].status = "in_progress"
    /\ images[1].assigned_to = 1
    /\ images[1].task_expires_at = Stale
    /\ images[2].status = "unlabeled"

\* C35: a committed save_labels leaves assigned_to of the image as it was;
\* assigned_to goes from a user to null only in a confirm_labels,
\* release_task or unlock step; and a save_labels call on an image that is
\* not confirmed commits whoever the caller is, holder of the image or not.
C35_SaveKeepsAssignment ==
    [][ \A i \in Images :
          /\ Len(saved'[i]) > Len(saved[i]) =>
                images'[i].assigned_to = images[i].assigned_to
          /\ (images[i].assigned_to # NoUser
                 /\ images'[i].assigned_to = NoUser) =>
                last'.op \in {"confirm_labels", "release_task", "unlock_tasks"}
          /\ (/\ calls' # calls
              /\ last'.op = "save_labels"
              /\ args'.image_id = i
              /\ images[i].qa_status # "confirmed") =>
                /\ last'.result \in {"created", "updated"}
                /\ Len(saved'[i]) = Len(saved[i]) + 1
                /\ saved'[i][Len(saved'[i])].labeled_by = args'.user_id
      ]_vars

\* C35 witness: worker 2 saved the image that worker 1 holds; it is labeled
\* and still assigned to worker 1.
C35_Witness ==
    /\ last = [op |-> "save_labels", result |-> "created"]
    /\ args.user_id = 2
    /\ args.image_id \in Images
    /\ images[args.image_id].assigned_to = 1
    /\ images[args.image_id].status = "labeled"
    /\ users[1].current_property_id = images[args.image_id].property_id

\* C36: when every worker keeps asking for a task and saving the task it was
\* given, every unlabeled image that has a property_id is eventually
\* labeled, also when the pool of unlabeled images is larger than the scan
\* window.
C36_EveryImageLabeled ==
    \A i \in Images :
        (images[i].status = "unlabeled" /\ images[i].property_id # Null)
            ~> (images[i].status = "labeled")


====
